---- MODULE Spec2Model ----
(***************************************************************************)
(* A model of src/ticcmd.py: the TicController wrapper around the ticcmd   *)
(* command line tool, its PowerUpSafeStart bracket and the ticcmd command  *)
(* invoker.  Every high-level operation is modelled statement by           *)
(* statement: each device command is one step, and in live mode a command  *)
(* may fail (subprocess.check_output raises), which unwinds the operation  *)
(* the way Python's `with` statement does.                                 *)
(***************************************************************************)
EXTENDS Integers, Sequences, FiniteSets, TLC

VARIABLES
    min_position,       \* self.min_position
    max_position,       \* self.max_position
    velocity,           \* self.velocity
    move_size,          \* self.move_size
    power_up_down,      \* self.power_up_down
    safe_start,         \* self.safe_start
    position,           \* self.position
    step_size,          \* self.step_size
    debug,              \* the debug argument every ticcmd call runs with
    ctor_move_size,     \* the move_size argument the constructor was given
    threads,            \* the callers driving this controller
    pc,                 \* per caller: the statement it is at
    op,                 \* per caller: the operation it is in (or has finished)
    arg,                \* per caller: the local new_position / velocity / size
    exc,                \* per caller: a failure is pending while __exit__ runs
    calls,              \* per caller: the ticcmd calls of its operation, in order
    result,             \* per caller: how its last operation ended
    exited,             \* per caller: __exit__ was invoked in its operation
    pos0,               \* per caller: position when its operation was called
    step0,              \* per caller: step_size when its operation was called
    energized,          \* device, as commanded: the driver is energized
    safe_start_cleared, \* device, as commanded: safe start has been exited
    moved,              \* some move has been accepted since construction
    rt,                 \* increase_step_size / decrease_step_size round trip
    tracing,            \* which histories are kept in sent and hist
    sent,               \* history of the commands issued since construction
    hist                \* history of the operations called since construction

config == <<min_position, max_position, velocity, move_size, power_up_down,
            safe_start, debug, ctor_move_size, threads, tracing>>
device == <<energized, safe_start_cleared, sent>>
vars == <<min_position, max_position, velocity, move_size, power_up_down,
          safe_start, position, step_size, debug, ctor_move_size, threads,
          pc, op, arg, exc, calls, result, exited, pos0, step0,
          energized, safe_start_cleared, moved, rt, tracing, sent, hist>>

(***************************************************************************)
(* Bounds of the model.                                                    *)
(***************************************************************************)
\* move() is called with 0 and with every integer within PosMargin of a bound
PosMargin == 1
\* set_step_size() is called with every integer from MIN - StepMargin to MAX + StepMargin
StepMargin == 1
\* consecutive move_up() calls are counted up to MaxUps
MaxUps == 12
\* --position commands and accepted moves are counted up to MaxCount
MaxCount == 3

(***************************************************************************)
(* StepSizes, and the constants of the constructor.                        *)
(***************************************************************************)
MIN == 0
MAX == 8
\* self.move_size = 200
HardMoveSize == 200
\* self.position = 0
InitialPosition == 0
\* the defaults of the arguments of __init__
DefaultMin == -2000
DefaultMax == 2000
DefaultVelocity == 10000
DefaultMoveSizeArg == 200
\* StepSizes.ONEHALF
DefaultStepSize == 1
\* (mutant of DebugDefault: ticcmd runs the executable unless told otherwise)
DebugLive == FALSE

\* def ticcmd(..., debug=True): no call site passes debug
DebugDefault == TRUE

Callers == {1, 2}

\* the configurations the controller is constructed with (min < max)
BoundPairs == { <<-150, 250>>, <<100, 350>> }
MoveSizeArgs == {200, 100}
Velocities == {10000}
\* (500000001 is above the range the device documents)
VelocityArgs == {-10000, 0, 500000001}

MoveArgs == {InitialPosition}
              \cup ((min_position - PosMargin) .. (min_position + PosMargin))
              \cup ((max_position - PosMargin) .. (max_position + PosMargin))
SizeArgs == (MIN - StepMargin) .. (MAX + StepMargin)

(***************************************************************************)
(* str(): the decimal text of an integer.                                  *)
(***************************************************************************)
Digits == <<"0", "1", "2", "3", "4", "5", "6", "7", "8", "9">>

RECURSIVE StrNat(_)
StrNat(n) == IF n < 10 THEN Digits[n + 1]
                       ELSE StrNat(n \div 10) \o Digits[(n % 10) + 1]

Str(n) == IF n < 0 THEN "-" \o StrNat(-n) ELSE StrNat(n)

(***************************************************************************)
(* ticcmd: with debug (the default) the command line is only               *)
(* logged and None is returned; in live mode the executable is started and *)
(* check_output either returns its output or raises.                       *)
(***************************************************************************)
TiccmdOutcomes(dbg) == IF ~dbg THEN {TRUE, FALSE} ELSE {TRUE}

\* the record of one ticcmd call: its arguments, whether the executable was
\* started, and whether the call returned (TRUE) or raised (FALSE)
Call(args, dbg, ok) == [args |-> args, ran |-> ~dbg, ok |-> ok]

(***************************************************************************)
(* The low-level device operations: one ticcmd call each.                  *)
(***************************************************************************)
energize_cmd == <<"--energize">>
deenergize_cmd == <<"--deenergize">>
exit_safe_start_cmd == <<"--exit-safe-start">>
enter_safe_start_cmd == <<"--enter-safe-start">>
\* (mutant of set_target_position_cmd: the sign is dropped)
set_target_position_cmd_unsigned(p) == <<"--position", Str(IF p < 0 THEN -p ELSE p)>>

set_target_position_cmd(p) == <<"--position", Str(p)>>
\* (mutant of set_target_velocity_cmd: the sign is dropped)
set_target_velocity_cmd_unsigned(v) == <<"--velocity", Str(IF v < 0 THEN -v ELSE v)>>

set_target_velocity_cmd(v) == <<"--velocity", Str(v)>>
set_step_mode_cmd(s) == <<"--step-mode", Str(s)>>

(***************************************************************************)
(* The device as the commands issued leave it.  A call that raised did not *)
(* deliver its command.                                                    *)
(***************************************************************************)
EnergizedAfter(args, ok, e) ==
    IF ~ok THEN e
    ELSE IF args = energize_cmd THEN TRUE
    ELSE IF args = deenergize_cmd THEN FALSE
    ELSE e

ClearedAfter(args, ok, s) ==
    IF ~ok THEN s
    ELSE IF args = exit_safe_start_cmd THEN TRUE
    ELSE IF args = enter_safe_start_cmd THEN FALSE
    ELSE s

\* the history of commands once `args` has been issued: the last --position
\* command, how many of them there were, whether any call raised, and whether
\* a --position command went out with both bracket flags set while the driver
\* was de-energized and safe start armed
SentAfter(args, ok) ==
    [target |-> IF "order" \in tracing /\ args[1] = "--position"
                   THEN args ELSE sent.target,
     npos |-> IF "count" \in tracing /\ args[1] = "--position"
                                     /\ sent.npos < MaxCount
                 THEN sent.npos + 1 ELSE sent.npos,
     failed |-> sent.failed \/ (tracing # {} /\ ~ok),
     late |-> sent.late \/ ( /\ "order" \in tracing
                             /\ args[1] = "--position"
                             /\ power_up_down /\ safe_start
                             /\ ~energized /\ ~safe_start_cleared )]

\* caller c makes the ticcmd call `args`, which returns (ok) or raises
Issue(c, args, ok) ==
    /\ calls' = [calls EXCEPT ![c] = Append(@, Call(args, debug, ok))]
    /\ energized' = EnergizedAfter(args, ok, energized)
    /\ safe_start_cleared' = ClearedAfter(args, ok, safe_start_cleared)
    /\ sent' = SentAfter(args, ok)

(***************************************************************************)
(* The checks of move and set_step_size.                                   *)
(***************************************************************************)
\* (mutants of BoundCheck: the lower bound forgotten; the bounds inclusive)
BoundCheckUpperOnly(lo, p, hi) == p < hi
BoundCheckInclusive(lo, p, hi) == lo <= p /\ p <= hi

BoundCheck(lo, p, hi) == lo < p /\ p < hi

\* (mutants of StepCheck: one ordinal too many accepted; the bounds inclusive)
StepCheckLoose(size) == MIN < size /\ size <= MAX + 1
StepCheckInclusive(size) == MIN <= size /\ size <= MAX

StepCheck(size) == MIN < size /\ size < MAX

\* (mutant of ExitSuppresses: __exit__ returns a true value)
ExitSwallows == TRUE

\* __exit__ returns None: a failure of the wrapped statement is not suppressed
ExitSuppresses == FALSE

(***************************************************************************)
(* Construction.                                                           *)
(***************************************************************************)
InitController ==
    /\ \E b \in BoundPairs : min_position = b[1] /\ max_position = b[2]
    /\ velocity \in Velocities
    /\ ctor_move_size \in MoveSizeArgs
    /\ move_size = HardMoveSize
    /\ power_up_down \in BOOLEAN
    /\ safe_start \in BOOLEAN
    /\ step_size \in MIN .. MAX
    /\ position = InitialPosition

InitCallers ==
    /\ pc = [c \in Callers |-> "idle"]
    /\ op = [c \in Callers |-> "none"]
    /\ arg = [c \in Callers |-> 0]
    /\ exc = [c \in Callers |-> FALSE]
    /\ calls = [c \in Callers |-> <<>>]
    /\ result = [c \in Callers |-> "none"]
    /\ exited = [c \in Callers |-> FALSE]
    /\ pos0 = [c \in Callers |-> InitialPosition]
    /\ step0 = [c \in Callers |-> MIN]
    /\ energized = FALSE
    /\ safe_start_cleared = FALSE
    /\ moved = FALSE
    /\ rt = [stage |-> 0, start |-> 0]
    /\ sent = [target |-> <<>>, npos |-> 0, failed |-> FALSE, late |-> FALSE]
    /\ hist = [ups |-> 0, nacc |-> 0, overlapped |-> FALSE]

\* one caller; ticcmd in debug mode (as every call site leaves it) or live
Init ==
    /\ InitController
    /\ InitCallers
    /\ debug \in BOOLEAN
    /\ threads = {1}
    /\ tracing = {}

(***************************************************************************)
(* Calling an operation.                                                   *)
(***************************************************************************)
\* the history of operations once caller c has called o: how many move_up()
\* calls in a row have been made since construction with nothing else called
\* (-1 once something else was, or past MaxUps), and whether a call has begun
\* while another caller was inside one
HistAfterCall(c, o) ==
    [ups |-> IF "ups" \notin tracing THEN hist.ups
              ELSE IF o = "move_up" /\ hist.ups >= 0 /\ hist.ups < MaxUps
                THEN hist.ups + 1 ELSE -1,
     nacc |-> hist.nacc,
     overlapped |-> hist.overlapped \/ ( /\ "order" \in tracing
                                         /\ \E d \in Callers \ {c} :
                                                pc[d] # "idle" )]

\* caller c, idle, calls operation o with local value a and goes to statement at
Begin(c, o, a, at) ==
    /\ c \in threads
    /\ pc[c] = "idle"
    /\ pc' = [pc EXCEPT ![c] = at]
    /\ op' = [op EXCEPT ![c] = o]
    /\ arg' = [arg EXCEPT ![c] = a]
    /\ exc' = [exc EXCEPT ![c] = FALSE]
    /\ calls' = [calls EXCEPT ![c] = <<>>]
    /\ result' = [result EXCEPT ![c] = "none"]
    /\ exited' = [exited EXCEPT ![c] = FALSE]
    /\ pos0' = [pos0 EXCEPT ![c] = position]
    /\ step0' = [step0 EXCEPT ![c] = step_size]
    /\ rt' = IF o = "increase_step_size"
                THEN [stage |-> 1, start |-> step_size]
             ELSE IF o = "decrease_step_size" /\ rt.stage = 1
                THEN [stage |-> 2, start |-> rt.start]
             ELSE [stage |-> 0, start |-> 0]
    /\ hist' = HistAfterCall(c, o)
    /\ UNCHANGED <<config, position, step_size, device, moved>>

\* the operation of caller c ends: it returns, or the failure reaches its caller
End(c, raised) ==
    /\ pc' = [pc EXCEPT ![c] = "idle"]
    /\ result' = [result EXCEPT ![c] = IF raised THEN "raised" ELSE "returned"]

Goto(c, at) ==
    /\ pc' = [pc EXCEPT ![c] = at]
    /\ result' = result

call_move(c) == \E p \in MoveArgs : Begin(c, "move", p, "move_check")

call_move_up(c) == Begin(c, "move_up", position + move_size, "move_check")

call_move_down(c) == Begin(c, "move_down", position - move_size, "move_check")

call_move_continuous(c) ==
    \E v \in VelocityArgs : Begin(c, "move_continuous", v, "enter_energize")

call_move_up_continuous(c) ==
    Begin(c, "move_up_continuous", velocity, "enter_energize")

call_move_down_continuous(c) ==
    Begin(c, "move_down_continuous", (-1) * velocity, "enter_energize")

call_set_step_size(c) ==
    \E s \in SizeArgs : Begin(c, "set_step_size", s, "size_check")

call_increase_step_size(c) ==
    Begin(c, "increase_step_size", step_size + 1, "size_check")

call_decrease_step_size(c) ==
    Begin(c, "decrease_step_size", step_size - 1, "size_check")

(***************************************************************************)
(* move.                                                                   *)
(***************************************************************************)
MoveOps == {"move", "move_up", "move_down"}
ContinuousOps == {"move_continuous", "move_up_continuous", "move_down_continuous"}
StepOps == {"set_step_size", "increase_step_size", "decrease_step_size"}

\* if self.min_position < new_position < self.max_position:
move_check(c) ==
    /\ pc[c] = "move_check"
    /\ IF BoundCheck(min_position, arg[c], max_position)
          THEN Goto(c, "move_assign")
          ELSE End(c, FALSE)
    /\ UNCHANGED <<config, position, step_size, op, arg, exc, calls, exited,
                   pos0, step0, device, moved, rt, hist>>

\* (mutant of move_assign: the assignment is left out)
move_assign_skipped(c) ==
    /\ pc[c] = "move_assign"
    /\ moved' = TRUE
    /\ Goto(c, "enter_energize")
    /\ UNCHANGED <<config, position, step_size, op, arg, exc, calls, exited,
                   pos0, step0, device, rt, hist>>

\* self.position = new_position
move_assign(c) ==
    /\ pc[c] = "move_assign"
    /\ position' = arg[c]
    /\ moved' = TRUE
    /\ hist' = IF "count" \in tracing /\ hist.nacc < MaxCount
                  THEN [hist EXCEPT !.nacc = @ + 1] ELSE hist
    /\ Goto(c, "enter_energize")
    /\ UNCHANGED <<config, step_size, op, arg, exc, calls, exited,
                   pos0, step0, device, rt>>

(***************************************************************************)
(* PowerUpSafeStart, entered by `with` around the wrapped command.         *)
(***************************************************************************)
\* the command wrapped by the bracket in the operation of caller c
WrappedCmd(c) == IF op[c] \in MoveOps THEN set_target_position_cmd(arg[c])
                                      ELSE set_target_velocity_cmd(arg[c])

\* __enter__: if self.energize: self.controller.energize()
\* a failure in __enter__ leaves the with statement without calling __exit__
enter_energize(c) ==
    /\ pc[c] = "enter_energize"
    /\ IF power_up_down
          THEN \E ok \in TiccmdOutcomes(debug) :
                  /\ Issue(c, energize_cmd, ok)
                  /\ IF ok THEN Goto(c, "enter_safe_start") ELSE End(c, TRUE)
          ELSE Goto(c, "enter_safe_start") /\ UNCHANGED <<calls, device>>
    /\ UNCHANGED <<config, position, step_size, op, arg, exc, exited,
                   pos0, step0, moved, rt, hist>>

\* __enter__: if self.safe_start: self.controller.exit_safe_start()
enter_safe_start(c) ==
    /\ pc[c] = "enter_safe_start"
    /\ IF safe_start
          THEN \E ok \in TiccmdOutcomes(debug) :
                  /\ Issue(c, exit_safe_start_cmd, ok)
                  /\ IF ok THEN Goto(c, "body") ELSE End(c, TRUE)
          ELSE Goto(c, "body") /\ UNCHANGED <<calls, device>>
    /\ UNCHANGED <<config, position, step_size, op, arg, exc, exited,
                   pos0, step0, moved, rt, hist>>

\* (mutant of BodyNext: no cleanup when the wrapped command raises)
BodyNextNoCleanup(ok) == IF ok THEN "exit_safe_start" ELSE "idle"

\* where the with statement goes once the wrapped command has returned (ok) or
\* raised: to __exit__ in both cases
BodyNext(ok) == "exit_safe_start"

\* return self._set_target_position(new_position) / self._set_target_velocity(velocity)
body(c) ==
    /\ pc[c] = "body"
    /\ \E ok \in TiccmdOutcomes(debug) :
          /\ Issue(c, WrappedCmd(c), ok)
          /\ exc' = [exc EXCEPT ![c] = ~ok]
          /\ IF BodyNext(ok) = "idle"
                THEN End(c, ~ok) /\ exited' = exited
                ELSE Goto(c, BodyNext(ok)) /\ exited' = [exited EXCEPT ![c] = TRUE]
    /\ UNCHANGED <<config, position, step_size, op, arg, pos0, step0, moved, rt, hist>>

\* __exit__: if self.safe_start: self.controller.enter_safe_start()
\* a failure in __exit__ leaves it at once
exit_safe_start(c) ==
    /\ pc[c] = "exit_safe_start"
    /\ IF safe_start
          THEN \E ok \in TiccmdOutcomes(debug) :
                  /\ Issue(c, enter_safe_start_cmd, ok)
                  /\ IF ok THEN Goto(c, "exit_deenergize") ELSE End(c, TRUE)
          ELSE Goto(c, "exit_deenergize") /\ UNCHANGED <<calls, device>>
    /\ UNCHANGED <<config, position, step_size, op, arg, exc, exited,
                   pos0, step0, moved, rt, hist>>

\* __exit__: if self.energize: self.controller.deenergize()
\* then __exit__ returns None and a pending failure of the wrapped command goes on
exit_deenergize(c) ==
    /\ pc[c] = "exit_deenergize"
    /\ IF power_up_down
          THEN \E ok \in TiccmdOutcomes(debug) :
                  /\ Issue(c, deenergize_cmd, ok)
                  /\ End(c, ~ok \/ (exc[c] /\ ~ExitSuppresses))
          ELSE End(c, exc[c] /\ ~ExitSuppresses) /\ UNCHANGED <<calls, device>>
    /\ UNCHANGED <<config, position, step_size, op, arg, exc, exited,
                   pos0, step0, moved, rt, hist>>

(***************************************************************************)
(* set_step_size.                                                          *)
(***************************************************************************)
\* if StepSizes.MIN < size < StepSizes.MAX:
size_check(c) ==
    /\ pc[c] = "size_check"
    /\ IF StepCheck(arg[c]) THEN Goto(c, "size_assign") ELSE End(c, FALSE)
    /\ UNCHANGED <<config, position, step_size, op, arg, exc, calls, exited,
                   pos0, step0, device, moved, rt, hist>>

\* self.step_size = size
size_assign(c) ==
    /\ pc[c] = "size_assign"
    /\ step_size' = arg[c]
    /\ Goto(c, "set_step_mode")
    /\ UNCHANGED <<config, position, op, arg, exc, calls, exited,
                   pos0, step0, device, moved, rt, hist>>

\* return self._set_step_mode(size)
set_step_mode(c) ==
    /\ pc[c] = "set_step_mode"
    /\ \E ok \in TiccmdOutcomes(debug) :
          /\ Issue(c, set_step_mode_cmd(arg[c]), ok)
          /\ End(c, ~ok)
    /\ UNCHANGED <<config, position, step_size, op, arg, exc, exited,
                   pos0, step0, moved, rt, hist>>

(***************************************************************************)
(* The specification.                                                      *)
(***************************************************************************)
Next ==
    \E c \in Callers :
        \/ call_move(c)
        \/ call_move_up(c)
        \/ call_move_down(c)
        \/ call_move_continuous(c)
        \/ call_move_up_continuous(c)
        \/ call_move_down_continuous(c)
        \/ call_set_step_size(c)
        \/ call_increase_step_size(c)
        \/ call_decrease_step_size(c)
        \/ move_check(c)
        \/ move_assign(c)
        \/ enter_energize(c)
        \/ enter_safe_start(c)
        \/ body(c)
        \/ exit_safe_start(c)
        \/ exit_deenergize(c)
        \/ size_check(c)
        \/ size_assign(c)
        \/ set_step_mode(c)

Spec == Init /\ [][Next]_vars

(***************************************************************************)
(* The low-level device operations of _TicController called directly: each *)
(* is one ticcmd call.                                                     *)
(***************************************************************************)
halt_and_set_position_cmd(p) == <<"--halt-and-set-position", Str(p)>>
halt_and_hold_cmd == <<"--halt-and-hold">>
home_cmd(direction) == <<"--home", IF direction = 1 THEN "fwd" ELSE "rev">>
reset_command_timeout_cmd == <<"--reset-command-timeout">>
reset_cmd == <<"--reset">>
set_max_velocity_cmd(v) == <<"--max-speed", Str(v)>>
set_starting_velocity_cmd(v) == <<"--starting-speed", Str(v)>>
set_max_acceleration_cmd(a) == <<"--max-accel", Str(a)>>
set_max_deceleration_cmd(a) == <<"--max-accel", Str(a)>>
get_data_cmd == <<"--status", "--full">>

NoArgOps == {"energize", "deenergize", "exit_safe_start", "enter_safe_start",
             "_halt_and_hold", "reset_command_timeout", "_reset", "_get_data"}
OneArgOps == {"_set_target_position", "_set_target_velocity",
              "_halt_and_set_position", "home", "_set_max_velocity",
              "_set_starting_velocity", "_set_max_acceleration",
              "_set_max_deceleration", "_set_step_mode"}
LowLevelOps == NoArgOps \cup OneArgOps

\* the arguments the one-argument operations are called with
LowLevelArgs == {1, 100}

LowLevelCmd(o, a) ==
    CASE o = "energize" -> energize_cmd
      [] o = "deenergize" -> deenergize_cmd
      [] o = "exit_safe_start" -> exit_safe_start_cmd
      [] o = "enter_safe_start" -> enter_safe_start_cmd
      [] o = "_set_target_position" -> set_target_position_cmd(a)
      [] o = "_set_target_velocity" -> set_target_velocity_cmd(a)
      [] o = "_halt_and_set_position" -> halt_and_set_position_cmd(a)
      [] o = "_halt_and_hold" -> halt_and_hold_cmd
      [] o = "home" -> home_cmd(a)
      [] o = "reset_command_timeout" -> reset_command_timeout_cmd
      [] o = "_reset" -> reset_cmd
      [] o = "_set_max_velocity" -> set_max_velocity_cmd(a)
      [] o = "_set_starting_velocity" -> set_starting_velocity_cmd(a)
      [] o = "_set_max_acceleration" -> set_max_acceleration_cmd(a)
      [] o = "_set_max_deceleration" -> set_max_deceleration_cmd(a)
      [] o = "_set_step_mode" -> set_step_mode_cmd(a)
      [] o = "_get_data" -> get_data_cmd

\* caller c calls the low-level operation o(a): it makes its one ticcmd call
\* and returns what the call returns, or the call raises
low_level(c) ==
    \E o \in LowLevelOps :
    \E a \in (IF o \in NoArgOps THEN {0} ELSE LowLevelArgs) :
    \E ok \in TiccmdOutcomes(debug) :
        /\ c \in threads
        /\ pc[c] = "idle"
        /\ op' = [op EXCEPT ![c] = o]
        /\ arg' = [arg EXCEPT ![c] = a]
        /\ exc' = [exc EXCEPT ![c] = FALSE]
        /\ calls' = [calls EXCEPT ![c] = << Call(LowLevelCmd(o, a), debug, ok) >>]
        /\ result' = [result EXCEPT ![c] = IF ok THEN "returned" ELSE "raised"]
        /\ exited' = [exited EXCEPT ![c] = FALSE]
        /\ pos0' = [pos0 EXCEPT ![c] = position]
        /\ step0' = [step0 EXCEPT ![c] = step_size]
        /\ energized' = EnergizedAfter(LowLevelCmd(o, a), ok, energized)
        /\ safe_start_cleared' = ClearedAfter(LowLevelCmd(o, a), ok, safe_start_cleared)
        /\ sent' = SentAfter(LowLevelCmd(o, a), ok)
        /\ rt' = [stage |-> 0, start |-> 0]
        /\ hist' = HistAfterCall(c, o)
        /\ UNCHANGED <<config, position, step_size, pc, moved>>

\* every operation of TicController and of _TicController
NextDevice == Next \/ \E c \in Callers : low_level(c)

\* one caller, the default step size, move increment and flags
InitDevice ==
    /\ min_position = -150 /\ max_position = 250
    /\ velocity \in Velocities
    /\ ctor_move_size = DefaultMoveSizeArg
    /\ move_size = HardMoveSize
    /\ power_up_down = TRUE
    /\ safe_start = TRUE
    /\ step_size = DefaultStepSize
    /\ position = InitialPosition
    /\ InitCallers
    /\ debug \in BOOLEAN
    /\ threads = {1}
    /\ tracing = {}

SpecDevice == InitDevice /\ [][NextDevice]_vars

(***************************************************************************)
(* The controller built with the defaults of __init__, one caller making   *)
(* move_up() calls only, with the history kept.                            *)
(***************************************************************************)
InitDefault ==
    /\ min_position = DefaultMin
    /\ max_position = DefaultMax
    /\ velocity = DefaultVelocity
    /\ ctor_move_size = DefaultMoveSizeArg
    /\ move_size = HardMoveSize
    /\ step_size = DefaultStepSize
    /\ position = InitialPosition
    /\ power_up_down \in BOOLEAN
    /\ safe_start \in BOOLEAN
    /\ InitCallers
    /\ debug \in BOOLEAN
    /\ threads = {1}
    /\ tracing = {"ups", "count", "order"}

NextUps ==
    \E c \in Callers :
        \/ call_move_up(c)
        \/ move_check(c)
        \/ move_assign(c)
        \/ enter_energize(c)
        \/ enter_safe_start(c)
        \/ body(c)
        \/ exit_safe_start(c)
        \/ exit_deenergize(c)

SpecUps == InitDefault /\ [][NextUps]_vars

(***************************************************************************)
(* The program as written: every call site leaves debug at its default.    *)
(* One caller using every operation of TicController and _TicController.   *)
(***************************************************************************)
InitShipped ==
    /\ min_position = -150 /\ max_position = 250
    /\ velocity = DefaultVelocity
    /\ ctor_move_size = DefaultMoveSizeArg
    /\ move_size = HardMoveSize
    /\ power_up_down \in BOOLEAN
    /\ safe_start \in BOOLEAN
    /\ step_size = DefaultStepSize
    /\ position = InitialPosition
    /\ InitCallers
    /\ debug = DebugDefault
    /\ threads = {1}
    /\ tracing = {}

SpecShipped == InitShipped /\ [][NextDevice]_vars

(***************************************************************************)
(* One caller using every operation of TicController, ticcmd as every call *)
(* site leaves it so that no command fails, with the commands issued and   *)
(* the moves accepted counted.                                             *)
(***************************************************************************)
InitCounted ==
    /\ min_position = -150 /\ max_position = 250
    /\ velocity = DefaultVelocity
    /\ ctor_move_size = DefaultMoveSizeArg
    /\ move_size = HardMoveSize
    /\ power_up_down \in BOOLEAN
    /\ safe_start \in BOOLEAN
    /\ step_size = DefaultStepSize
    /\ position = InitialPosition
    /\ InitCallers
    /\ debug = DebugDefault
    /\ threads = {1}
    /\ tracing = {"count", "order"}

SpecCounted == InitCounted /\ [][Next]_vars

(***************************************************************************)
(* Two callers driving one controller with move calls that are not         *)
(* serialized: their statements interleave.  ticcmd as every call site     *)
(* leaves it, the default flags, the history kept.                         *)
(***************************************************************************)
InitConcurrent ==
    /\ min_position = -150 /\ max_position = 250
    /\ velocity = DefaultVelocity
    /\ ctor_move_size = DefaultMoveSizeArg
    /\ move_size = HardMoveSize
    /\ power_up_down = TRUE
    /\ safe_start = TRUE
    /\ step_size = DefaultStepSize
    /\ position = InitialPosition
    /\ InitCallers
    /\ debug = DebugDefault
    /\ threads = {1, 2}
    /\ tracing = {"order"}

NextMoves ==
    \E c \in Callers :
        \/ call_move(c)
        \/ move_check(c)
        \/ move_assign(c)
        \/ enter_energize(c)
        \/ enter_safe_start(c)
        \/ body(c)
        \/ exit_safe_start(c)
        \/ exit_deenergize(c)

SpecConcurrent == InitConcurrent /\ [][NextMoves]_vars

(***************************************************************************)
(* What the properties below are stated with.                              *)
(***************************************************************************)
BracketOps == MoveOps \cup ContinuousOps

\* caller c is not inside an operation and the last one it ran is one of ops
Finished(c, ops) == pc[c] = "idle" /\ op[c] \in ops

\* the command lines caller c issued in its operation, in order
Issued(c) == [i \in 1 .. Len(calls[c]) |-> calls[c][i].args]

IsPrefix(s, t) == Len(s) <= Len(t) /\ \A i \in 1 .. Len(s) : s[i] = t[i]

AllReturned(c) == \A i \in 1 .. Len(calls[c]) : calls[c][i].ok

Failed(c, args) == \E i \in 1 .. Len(calls[c]) : calls[c][i].args = args /\ ~calls[c][i].ok

Times(c, args) == Cardinality({i \in 1 .. Len(calls[c]) : calls[c][i].args = args})

\* the command an operation of the bracket wraps, as the claims name it
OperationCmd(c) == IF op[c] \in MoveOps THEN <<"--position", Str(arg[c])>>
                                        ELSE <<"--velocity", Str(arg[c])>>

\* the bracket was reached: the move was accepted, or the operation is continuous
Bracketed(c) ==
    /\ Finished(c, BracketOps)
    /\ op[c] \in MoveOps => (min_position < arg[c] /\ arg[c] < max_position)

\* none of the bracket's own four commands raised
BracketReturned(c) ==
    \A i \in 1 .. Len(calls[c]) : calls[c][i].args # OperationCmd(c) => calls[c][i].ok

ExpectedSequence(c) ==
    (IF power_up_down THEN << <<"--energize">> >> ELSE <<>>)
    \o (IF safe_start THEN << <<"--exit-safe-start">> >> ELSE <<>>)
    \o << OperationCmd(c) >>
    \o (IF safe_start THEN << <<"--enter-safe-start">> >> ELSE <<>>)
    \o (IF power_up_down THEN << <<"--deenergize">> >> ELSE <<>>)

(***************************************************************************)
(* The claims.                                                             *)
(***************************************************************************)

C2_BracketOrder ==
    \A c \in Callers :
        Bracketed(c) =>
            /\ IsPrefix(Issued(c), ExpectedSequence(c))
            /\ BracketReturned(c) =>
                  /\ Issued(c) = ExpectedSequence(c)
                  /\ Times(c, OperationCmd(c)) = 1

\* the operation's command raised and the whole tail was issued after it
C2_Witness ==
    \E c \in Callers :
        /\ Bracketed(c)
        /\ power_up_down /\ safe_start
        /\ op[c] = "move"
        /\ Failed(c, OperationCmd(c))
        /\ BracketReturned(c)
        /\ Len(calls[c]) = 5
        /\ calls[c][4].args = <<"--enter-safe-start">>
        /\ calls[c][5].args = <<"--deenergize">>

C5_FailureSurfaced ==
    \A c \in Callers :
        (Bracketed(c) /\ Failed(c, OperationCmd(c))) =>
            /\ result[c] = "raised"
            /\ exited[c]
            /\ Times(c, OperationCmd(c)) = 1
            /\ (power_up_down \/ safe_start) =>
                  calls[c][Len(calls[c])].args # OperationCmd(c)

\* the wrapped command of a move_continuous raised and the exit phase returned
C5_Witness ==
    \E c \in Callers :
        /\ Bracketed(c)
        /\ op[c] = "move_continuous"
        /\ Failed(c, OperationCmd(c))
        /\ BracketReturned(c)
        /\ power_up_down
        /\ calls[c][Len(calls[c])].args = <<"--deenergize">>
        /\ result[c] = "raised"

\* C6: in every state after the first accepted move,
\* min_position < position < max_position.
C6_PositionInBounds ==
    moved => (min_position < position /\ position < max_position)

\* an accepted move to the last position below max_position, from a
\* controller built with position 0 outside its bounds, whose command raised
C6_Witness ==
    /\ moved
    /\ ~(min_position < InitialPosition /\ InitialPosition < max_position)
    /\ position = max_position - 1
    /\ \E c \in Callers : Finished(c, {"move"}) /\ result[c] = "raised"

\* C7: step_size stays in [MIN, MAX] = [0, 8], and a step-size operation whose
\* target is outside that range changes nothing and issues nothing.
C7_StepSizeInRange ==
    /\ step_size \in 0 .. 8
    /\ \A c \in Callers :
          (Finished(c, StepOps) /\ arg[c] \notin 0 .. 8) =>
              (step_size = step0[c] /\ calls[c] = <<>>)

\* increase_step_size at the top ordinal, rejected
C7_Witness ==
    \E c \in Callers :
        /\ Finished(c, {"increase_step_size"})
        /\ step0[c] = 8
        /\ arg[c] = 9
        /\ step_size = 8

\* C8: set_step_size(s) with 0 < s < 8 sets step_size to s and issues the one
\* command --step-mode s and nothing else; with s = 0, s = 8 or s outside
\* [0, 8] it leaves step_size as it was and issues nothing.
C8_SetStepSize ==
    \A c \in Callers :
        Finished(c, {"set_step_size"}) =>
            IF 0 < arg[c] /\ arg[c] < 8
               THEN /\ step_size = arg[c]
                    /\ Issued(c) = << <<"--step-mode", Str(arg[c])>> >>
               ELSE /\ step_size = step0[c]
                    /\ calls[c] = <<>>

\* set_step_size(7) accepted with both bracket flags set
C8_Witness ==
    \E c \in Callers :
        /\ Finished(c, {"set_step_size"})
        /\ arg[c] = 7
        /\ step0[c] # 7
        /\ power_up_down /\ safe_start
        /\ Issued(c) = << <<"--step-mode", "7">> >>

\* C9: from a step size s that is neither 0 nor 8, increase_step_size
\* followed by decrease_step_size leaves step_size equal to s.
C9_RoundTrip ==
    (rt.stage = 2 /\ (\A c \in Callers : pc[c] = "idle") /\ rt.start \in 1 .. 7)
        => step_size = rt.start

\* C10: move_up() behaves as move(position + m) and move_down() as
\* move(position - m), m being the move_size given at construction.
C10_MoveUpDown ==
    \A c \in Callers :
        /\ Finished(c, {"move_up"}) => arg[c] = pos0[c] + ctor_move_size
        /\ Finished(c, {"move_down"}) => arg[c] = pos0[c] - ctor_move_size
        /\ ( /\ Finished(c, {"move_up"})
             /\ min_position < pos0[c] + ctor_move_size
             /\ pos0[c] + ctor_move_size < max_position
             /\ AllReturned(c) )
           => /\ position = pos0[c] + ctor_move_size
              /\ Times(c, <<"--position", Str(pos0[c] + ctor_move_size)>>) = 1

Smaller(a, b) == IF a < b THEN a ELSE b

\* C11: with min_position = -2000, max_position = 2000, move_size = 200 and
\* position starting at 0, k consecutive move_up() calls leave
\* position = 200 * min(k, 9): the first sets 200 and issues --position 200,
\* the ninth leaves 1800, the tenth and every later one leaves 1800 and
\* issues nothing; position is never max_position.
C11_ConsecutiveMoveUps ==
    /\ position # 2000
    /\ \A c \in Callers :
          (Finished(c, {"move_up"}) /\ hist.ups >= 1) =>
              /\ position = 200 * Smaller(hist.ups, 9)
              /\ hist.ups = 1 =>
                    /\ position = 200
                    /\ BracketReturned(c) => Times(c, <<"--position", "200">>) = 1
              /\ hist.ups = 9 => position = 1800
              /\ hist.ups >= 10 => (position = 1800 /\ calls[c] = <<>>)

\* the eleventh consecutive move_up() has been rejected
C11_Witness ==
    \E c \in Callers :
        /\ Finished(c, {"move_up"})
        /\ hist.ups = 11
        /\ arg[c] = 2000
        /\ position = 1800
        /\ calls[c] = <<>>

\* the motion commands (--position, --velocity) among the calls of caller c
MotionCmds(c) ==
    SelectSeq(Issued(c), LAMBDA a : a[1] \in {"--position", "--velocity"})

\* C12: move_continuous(v), for any integer v, leaves position and step_size
\* unchanged and issues, inside the bracket, exactly one motion command,
\* --velocity v; move_up_continuous() and move_down_continuous() do the same
\* with v = +velocity and v = -velocity.
C12_MoveContinuous ==
    \A c \in Callers :
        /\ (op[c] \in ContinuousOps /\ threads = {c}) =>
              (position = pos0[c] /\ step_size = step0[c])
        /\ Finished(c, {"move_up_continuous"}) => arg[c] = velocity
        /\ Finished(c, {"move_down_continuous"}) => arg[c] = 0 - velocity
        /\ Finished(c, ContinuousOps) =>
              /\ IsPrefix(Issued(c), ExpectedSequence(c))
              /\ BracketReturned(c) =>
                    /\ Issued(c) = ExpectedSequence(c)
                    /\ MotionCmds(c) = << <<"--velocity", Str(arg[c])>> >>

\* a velocity above the device's range went out, inside the whole bracket
C12_Witness ==
    \E c \in Callers :
        /\ Finished(c, {"move_continuous"})
        /\ arg[c] = 500000001
        /\ power_up_down /\ safe_start
        /\ moved
        /\ Issued(c) = << <<"--energize">>, <<"--exit-safe-start">>,
                          <<"--velocity", "500000001">>,
                          <<"--enter-safe-start">>, <<"--deenergize">> >>

InBracket(c) ==
    pc[c] \in {"enter_energize", "enter_safe_start", "body",
               "exit_safe_start", "exit_deenergize"}

\* C13: in an accepted move(p) position is p before the first device command
\* of the call is issued, and it is still p after any device command of the
\* call has failed: it is not rolled back.
C13_PositionSetFirst ==
    \A c \in Callers :
        (op[c] \in MoveOps /\ threads = {c}) =>
            /\ pc[c] \in {"move_check", "move_assign"} => calls[c] = <<>>
            /\ InBracket(c) => position = arg[c]
            /\ calls[c] # <<>> => position = arg[c]
            /\ ( /\ pc[c] = "idle"
                 /\ min_position < arg[c] /\ arg[c] < max_position
                 /\ result[c] = "raised" ) => position = arg[c]

\* the first command of an accepted move raised; position is the new one
C13_Witness ==
    \E c \in Callers :
        /\ Finished(c, {"move"})
        /\ calls[c] = << [args |-> <<"--energize">>, ran |-> TRUE, ok |-> FALSE] >>
        /\ result[c] = "raised"
        /\ position = arg[c]
        /\ pos0[c] # arg[c]

\* caller c takes a step
Steps(c) == pc'[c] # pc[c] \/ calls'[c] # calls[c] \/ op'[c] # op[c]

\* C14: position is changed only by an accepted move and step_size only by
\* an accepted set_step_size (called directly or through move_up / move_down,
\* increase_step_size / decrease_step_size); move operations leave step_size
\* alone, step-size operations leave position alone, the low-level
\* operations and the bracket leave both alone, and nothing changes
\* min_position, max_position, velocity, move_size, power_up_down or
\* safe_start.
C14_Frame ==
    [][ /\ <<min_position, max_position, velocity, move_size, power_up_down,
             safe_start>>' = <<min_position, max_position, velocity, move_size,
                               power_up_down, safe_start>>
        /\ position' # position =>
              \E c \in Callers :
                  /\ op[c] \in MoveOps /\ pc[c] = "move_assign"
                  /\ min_position < arg[c] /\ arg[c] < max_position
                  /\ position' = arg[c]
        /\ step_size' # step_size =>
              \E c \in Callers :
                  /\ op[c] \in StepOps /\ pc[c] = "size_assign"
                  /\ 0 < arg[c] /\ arg[c] < 8
                  /\ step_size' = arg[c]
        /\ \A c \in Callers :
              Steps(c) =>
                  /\ op'[c] \in MoveOps \cup ContinuousOps => step_size' = step_size
                  /\ op'[c] \in StepOps \cup ContinuousOps => position' = position
                  /\ op'[c] \in LowLevelOps =>
                        (position' = position /\ step_size' = step_size)
                  /\ InBracket(c) =>
                        (position' = position /\ step_size' = step_size)
      ]_vars

\* both have been changed, and a low-level operation has then been called
C14_Witness ==
    \E c \in Callers :
        /\ Finished(c, {"_set_target_position"})
        /\ arg[c] = 100
        /\ position = 249
        /\ step_size = 7

\* C17: each low-level operation makes exactly one ticcmd call, with a flag
\* of its own: no other low-level operation issues that flag for the same
\* argument.
C17_OneToOne ==
    \A c \in Callers :
        Finished(c, LowLevelOps) =>
            /\ Len(calls[c]) = 1
            /\ calls[c][1].args = LowLevelCmd(op[c], arg[c])
            /\ \A o \in LowLevelOps \ {op[c]} :
                  LowLevelCmd(o, arg[c])[1] # calls[c][1].args[1]

\* C15: no step-size operation sets step_size to a boundary ordinal: whenever
\* step_size changes its new value is in [1, 7], so 0 and 8 are held only as
\* the untouched initial value, and once step_size is neither 0 nor 8 it
\* never is again.
C15_NoBoundaryOrdinal ==
    [][ /\ step_size' # step_size => step_size' \in 1 .. 7
        /\ step_size \notin {0, 8} => step_size' \notin {0, 8}
      ]_vars

\* decrease_step_size() from 1, towards 0, has been turned down
C15_Witness ==
    \E c \in Callers :
        /\ Finished(c, {"decrease_step_size"})
        /\ step0[c] = 1
        /\ arg[c] = 0
        /\ step_size = 1
        /\ calls[c] = <<>>

AllIdle == \A c \in Callers : pc[c] = "idle"

\* position is not the target of the last --position command issued
Mismatch == sent.target # <<>> /\ sent.target # <<"--position", Str(position)>>

\* C16: with two callers whose move calls overlap, both calls can have
\* completed with position different from the target of the last --position
\* command issued, and a --position command can go out after the other
\* caller's exit phase has re-armed safe start and de-energized the driver;
\* neither happens unless calls have overlapped.
C16_OverlappingMoves ==
    /\ (AllIdle /\ Mismatch) => hist.overlapped
    /\ sent.late => hist.overlapped

\* both calls were accepted and have returned, position is not the last
\* target commanded, and a --position command went out to a driver that the
\* other caller had already de-energized and re-armed
C16_Witness ==
    /\ \A c \in Callers :
          /\ Finished(c, {"move"})
          /\ min_position < arg[c] /\ arg[c] < max_position
          /\ result[c] = "returned"
          /\ Len(calls[c]) = 5
    /\ Mismatch
    /\ sent.late

\* C18: in a single-threaded run in which no device command has failed, after
\* every completed high-level operation position is the target of the most
\* recent --position command issued (0 if there was none), and as many
\* --position commands have been issued as moves were accepted.
C18_PositionTracksCommands ==
    (threads = {1} /\ AllIdle /\ ~sent.failed) =>
        /\ IF sent.target = <<>> THEN position = 0
                                 ELSE sent.target = <<"--position", Str(position)>>
        /\ sent.npos = hist.nacc

\* nothing failed: the third accepted move, to a negative position, has
\* completed
C18_Witness ==
    /\ threads = {1} /\ ~sent.failed
    /\ Finished(1, {"move"})
    /\ arg[1] = -149 /\ position = -149
    /\ sent.target = <<"--position", "-149">>
    /\ sent.npos = 3 /\ hist.nacc = 3

\* C19: every command of every operation of TicController and _TicController
\* goes through ticcmd with debug at its default, True: no call has started
\* the external executable, each one returned the empty result, and no
\* operation has failed with an external-tool error.
C19_NothingStarted ==
    /\ debug
    /\ \A c \in Callers :
          /\ \A i \in 1 .. Len(calls[c]) : ~calls[c][i].ran /\ calls[c][i].ok
          /\ ~exc[c]
          /\ pc[c] = "idle" => result[c] # "raised"

\* a bracketed operation has issued its five commands and returned, none of
\* them run
C19_Witness ==
    \E c \in Callers :
        /\ Finished(c, {"move_down_continuous"})
        /\ Len(calls[c]) = 5
        /\ \A i \in 1 .. 5 : ~calls[c][i].ran
        /\ result[c] = "returned"

====
